---------------------------- MODULE Spec2Model ----------------------------
(***************************************************************************)
(* Model of GeoBaseMain.py, the command line launcher of GeoBase: the      *)
(* main() pipeline (argument checks, key source, the five chained search   *)
(* stages, the limiter, the two renderers), the geocode scanner            *)
(* scan_coords, the table renderer display with its RotatingColors cycle   *)
(* and the fixed_width cell formatter.                                     *)
(*                                                                         *)
(* Text is a sequence of one-character strings, so that strip, split,      *)
(* slicing and padding are computed character by character.                *)
(***************************************************************************)
EXTENDS Integers, Sequences, FiniteSets, TLC

VARIABLES
    pc,        \* position of the run in main() / display()
    args,      \* the namespace returned by parser.parse_args()
    argv,      \* the stage flags in the order they were typed
    limit,     \* main's local `limit`: <<>> is None, <<n>> is the int n
    res,       \* main's local `res`: sequence of [h, k] pairs
    calls,     \* the stage calls made so far: [stage, from_keys, out]
    status,    \* <<>> while running, <<n>> the exit status
    err,       \* name of the error()/warn() that ended the run, or "none"
    warned,    \* keys reported by warn('key', ...), in order
    io,        \* [tty, stdin, init]: what the key source step read
    hist,      \* [stream, kept, shown]: final stream, truncated, rendered
    out,       \* lines written by display_quiet
    lookups,   \* keys handed to geob.get by a renderer
    disp,      \* locals of display(): list, omit, show, important, lim, ...
    rows,      \* rows drawn by display(): [field, style, idx, label, cells]
    geo,       \* [input, verbose, result] of the scan_coords call under test
    cellv      \* the value handed to fixed_width by the cell formatting run

vars == <<pc, args, argv, limit, res, calls, status, err, warned, io, hist,
          out, lookups, disp, rows, geo, cellv>>

-----------------------------------------------------------------------------
(* Bounds of the model *)

\* longest scan_coords argument explored by SpecGeo
MaxLen == 5
\* longest --show list explored by SpecDisplay
MaxShow == 3
\* most results handed to display() by SpecDisplay
MaxResults == 3
\* widest terminal explored, in columns
MaxTermWidth == 170

-----------------------------------------------------------------------------
(* Text helpers: Python str operations, character by character *)

None == << "<None>" >>

Digits == <<"0", "1", "2", "3", "4", "5", "6", "7", "8", "9">>

IsDigit(c) == \E i \in 1..10 : Digits[i] = c

DigitVal(c) == (CHOOSE i \in 1..10 : Digits[i] = c) - 1

RECURSIVE LStrip(_, _)
LStrip(s, chars) ==
    IF s # <<>> /\ Head(s) \in chars THEN LStrip(Tail(s), chars) ELSE s

RECURSIVE RStrip(_, _)
RStrip(s, chars) ==
    IF s # <<>> /\ s[Len(s)] \in chars
    THEN RStrip(SubSeq(s, 1, Len(s) - 1), chars)
    ELSE s

\* str.strip(chars)
Strip(s, chars) == RStrip(LStrip(s, chars), chars)

RECURSIVE SplitAcc(_, _, _, _)
SplitAcc(s, sep, cur, acc) ==
    IF s = <<>> THEN Append(acc, cur)
    ELSE IF Head(s) = sep THEN SplitAcc(Tail(s), sep, <<>>, Append(acc, cur))
    ELSE SplitAcc(Tail(s), sep, Append(cur, Head(s)), acc)

\* str.split(sep): empty pieces are kept, '' gives ['']
Split(s, sep) == SplitAcc(s, sep, <<>>, <<>>)

\* str.split(): pieces between runs of blanks, empty pieces dropped
SplitWS(s) == SelectSeq(Split(s, " "), LAMBDA t : t # <<>>)

\* float(t) succeeds; the model's numerals are the unsigned digit strings
IsFloat(t) == t # <<>> /\ \A i \in 1..Len(t) : IsDigit(t[i])

RECURSIVE ParseNum(_)
ParseNum(t) ==
    IF t = <<>> THEN 0
    ELSE 10 * ParseNum(SubSeq(t, 1, Len(t) - 1)) + DigitVal(t[Len(t)])

\* int(t): an optional sign and digits
ParseInt(t) ==
    IF t # <<>> /\ Head(t) = "-" THEN 0 - ParseNum(Tail(t)) ELSE ParseNum(t)

RECURSIVE NatToStr(_)
NatToStr(n) ==
    IF n < 10 THEN <<Digits[n + 1]>>
    ELSE Append(NatToStr(n \div 10), Digits[(n % 10) + 1])

\* '%.3f' % h for the whole-number scores of the model
Format3(h) == NatToStr(h) \o <<".", "0", "0", "0">>

RECURSIVE Flatten(_)
Flatten(ss) == IF ss = <<>> THEN <<>> ELSE Head(ss) \o Flatten(Tail(ss))

RECURSIVE Join(_, _)
Join(sep, l) ==
    IF l = <<>> THEN <<>>
    ELSE IF Len(l) = 1 THEN l[1]
    ELSE l[1] \o sep \o Join(sep, Tail(l))

Blanks(n) == [i \in 1..n |-> " "]

Range(s) == {s[i] : i \in 1..Len(s)}


-----------------------------------------------------------------------------
(* The GeoBase store behind `g`: the collaborator of GeoBaseMain.py.        *)
(* Keys, field names and values are text.                                   *)

KA == <<"A">>
KB == <<"B">>
KC == <<"C">>
KD == <<"D">>
KE == <<"E">>
\* a key no record has
KZ == <<"Z">>

REF == <<"_", "_", "r", "e", "f", "_", "_">>
ID == <<"_", "_", "i", "d", "_", "_">>
NAME == <<"n", "a", "m", "e">>
\* a field name the store does not have
BOGUS == <<"x", "x">>

\* iter(g): the store's enumeration order
StoreKeys == <<KA, KB, KC, KD, KE>>

\* k in g
InStore(k) == \E i \in 1..Len(StoreKeys) : StoreKeys[i] = k

\* g.fields
Fields == <<ID, NAME>>

IsField(f) == \E i \in 1..Len(Fields) : Fields[i] = f

\* fixed_width's stand-in for "no truncation"
NoTruncate == 1000

LongText == [i \in 1..(NoTruncate + 1) |-> "y"]

\* g.get(k, f)
Get(k, f) ==
    IF f = ID THEN k
    ELSE IF k \in {KA, KC} THEN <<"o", "r", "l", "y">>
    ELSE IF k = KB THEN <<"o", "r", "a", "n">>
    ELSE IF k = KD THEN <<"n", "i", "c", "e">>
    ELSE LongText

\* g.getLocation(k): <<>> is None
getLocation(k) ==
    IF k = KA THEN <<1, 2>>
    ELSE IF k = KB THEN <<1, 30>>
    ELSE IF k = KC THEN <<60, 2>>
    ELSE IF k = KE THEN <<3, 2>>
    ELSE <<>>

Abs(x) == IF x < 0 THEN 0 - x ELSE x

\* distance in km between two points (whole numbers stand for the floats)
Dist(p, q) == Abs(p[1] - q[1]) + Abs(p[2] - q[2])

\* keys of from_keys the store holds, in the store's enumeration order
Restricted(from_keys) ==
    SelectSeq(StoreKeys, LAMBDA k : k \in Range(from_keys))

\* position of a key in the alphabet: the order of Python's string compare
KeyRank(k) ==
    IF InStore(k) THEN CHOOSE i \in 1..Len(StoreKeys) : StoreKeys[i] = k
    ELSE Len(StoreKeys) + 1

\* the orders used below: "asc" and "desc" compare scores only (stable),
\* "tuple" is Python's order on (score, key) tuples
Before(mode, a, b) ==
    IF mode = "asc" THEN a.h < b.h
    ELSE IF mode = "desc" THEN a.h > b.h
    ELSE a.h < b.h \/ (a.h = b.h /\ KeyRank(a.k) < KeyRank(b.k))

RECURSIVE InsertBy(_, _, _)
InsertBy(mode, e, sorted) ==
    IF sorted = <<>> THEN <<e>>
    ELSE IF Before(mode, e, sorted[Len(sorted)]) 
    THEN Append(InsertBy(mode, e, SubSeq(sorted, 1, Len(sorted) - 1)),
                sorted[Len(sorted)])
    ELSE Append(sorted, e)

\* stable insertion sort
RECURSIVE SortBy(_, _)
SortBy(mode, s) ==
    IF s = <<>> THEN <<>>
    ELSE InsertBy(mode, s[Len(s)], SortBy(mode, SubSeq(s, 1, Len(s) - 1)))

Take(s, n) == SubSeq(s, 1, IF n < Len(s) THEN n ELSE Len(s))

\* g.trepGet(text, from_keys=...): the engine ranks C before A
trepGet(text, from_keys) ==
    LET hits == SelectSeq(<<KC, KA>>, LAMBDA k : k \in Range(from_keys))
    IN  [i \in 1..Len(hits) |-> [h |-> 100 - i, k |-> hits[i]]]

\* g.getKeysWhere(field, value, from_keys=...): keys only
getKeysWhere(field, value, from_keys) ==
    SelectSeq(Restricted(from_keys), LAMBDA k : Get(k, field) = value)

\* g.findNearPoint(coords, radius, from_keys=...): (distance, key) pairs
findNearPoint(coords, radius, from_keys) ==
    LET cand == SelectSeq(Restricted(from_keys),
                          LAMBDA k : /\ getLocation(k) # <<>>
                                     /\ Dist(getLocation(k), coords) <= radius)
    IN  [i \in 1..Len(cand) |->
            [h |-> Dist(getLocation(cand[i]), coords), k |-> cand[i]]]

\* g.findClosestFromPoint(coords, N, from_keys=...): the N nearest, ascending
findClosestFromPoint(coords, N, from_keys) ==
    LET cand == SelectSeq(Restricted(from_keys),
                          LAMBDA k : getLocation(k) # <<>>)
        pairs == [i \in 1..Len(cand) |->
                     [h |-> Dist(getLocation(cand[i]), coords), k |-> cand[i]]]
    IN  Take(SortBy("asc", pairs), N)

\* similarity of two texts, in percent
Ratio(a, b) ==
    IF a = b THEN 100
    ELSE IF a # <<>> /\ b # <<>> /\ Take(a, 2) = Take(b, 2) THEN 90
    ELSE 10

\* g.fuzzyGet(text, field, min_match, from_keys=...): best matches first
fuzzyGet(text, field, min_match, from_keys) ==
    LET cand == SelectSeq(Restricted(from_keys),
                          LAMBDA k : Ratio(text, Get(k, field)) >= min_match)
        pairs == [i \in 1..Len(cand) |->
                     [h |-> Ratio(text, Get(cand[i], field)), k |-> cand[i]]]
    IN  SortBy("desc", pairs)

-----------------------------------------------------------------------------
(* scan_coords *)

\* a variant of BadCount: only too few numbers are refused
MutScanCoordsCount(coords) == Len(coords) < 2

\* the test `len(coords) != 2` of scan_coords
BadCount(coords) == Len(coords) # 2

ScanResult(exit, e, coords, warn, printed) ==
    [exit |-> exit, err |-> e, coords |-> coords, warn |-> warn,
     printed |-> printed]

scan_coords(u_input, verbose) ==
    LET toks == Split(Strip(u_input, {"(", ")"}), ",")
    IN  IF \E i \in 1..Len(toks) : ~IsFloat(toks[i])
        THEN \* except ValueError: perhaps the input was a key
             IF ~InStore(u_input)
             THEN ScanResult(TRUE, "key", <<>>, <<u_input>>, FALSE)
             ELSE IF getLocation(u_input) = <<>>
             THEN ScanResult(TRUE, "geocode_unknown", <<>>, <<>>, FALSE)
             ELSE ScanResult(FALSE, "none", getLocation(u_input), <<>>, FALSE)
        ELSE LET coords == [i \in 1..Len(toks) |-> ParseNum(toks[i])]
             IN  IF BadCount(coords)
                 THEN ScanResult(TRUE, "geocode_format", <<>>, <<>>, FALSE)
                 ELSE ScanResult(FALSE, "none", coords, <<>>, verbose)


-----------------------------------------------------------------------------
(* Command lines explored: the namespace built by parse_args *)

ORLY == <<"o", "r", "l", "y">>
ORAN == <<"o", "r", "a", "n">>

\* GeoBase.BASES
BASES == {"ori_por", "airports", "stations"}

\* argparse defaults of --near-limit, --closest-limit, --fuzzy-limit (percent)
NearLimit == 50
ClosestLimit == 10
FuzzyLimit == 85
\* the limit of interactive mode
DefaultLimit == 4

TrepArgs == {None, <<"p", "a", "r", "i", "s">>}

ExactArgs == {<<None, ID>>, <<ORLY, NAME>>, <<ORLY, BOGUS>>}

NearArgs ==
    {None, <<"1", ",", "2">>, <<"1", ",", "2", ",", "3">>, KE, KZ, KD}

ClosestArgs == {None, <<"(", "3", ",", "2", ")">>, KZ}

FuzzyArgs == {<<None, NAME>>, <<ORAN, NAME>>, <<ORAN, BOGUS>>}

ShowOmitArgs == {<<<<>>, <<>>>>, <<<<REF, ID>>, <<>>>>, <<<<>>, <<BOGUS>>>>}

LimitArgs == {None, <<"-", "1">>, <<"0">>, <<"2">>, <<"7">>}

KeysArgs == {<<>>, <<KB, KZ, KA>>, <<KE, KZ, KC, KB, KA, KC>>}

\* what may be waiting on stdin: rows of text
StdinRows ==
    {<<>>, << <<"E", " ", " ", "Z">>, <<" ", "C">> >>, << <<"B">>, <<>>, <<"A", " ">> >>}

MkArgs(base, update, trep, ex, near, closest, fz, so, lim, quiet, keys) ==
    [base |-> base, update |-> update, trep |-> trep,
     exact |-> ex[1], exact_property |-> ex[2],
     near |-> near, closest |-> closest,
     fuzzy |-> fz[1], fuzzy_property |-> fz[2],
     show |-> so[1], omit |-> so[2],
     limit |-> lim, quiet |-> quiet, keys |-> keys]

\* the command lines explored
AllArgs ==
    {MkArgs(b, u, t, e, n, c, f, so, l, q, k) :
        b \in {"ori_por", "nowhere"}, u \in BOOLEAN,
        t \in TrepArgs, e \in ExactArgs, n \in NearArgs, c \in ClosestArgs,
        f \in FuzzyArgs, so \in ShowOmitArgs, l \in LimitArgs,
        q \in BOOLEAN, k \in KeysArgs}

\* the if-blocks of main's pipeline, top to bottom
StageNames == <<"trep", "exact", "near", "closest", "fuzzy">>

\* args[stage] is not None
Enabled(a, stage) ==
    IF stage = "trep" THEN a.trep # None
    ELSE IF stage = "exact" THEN a.exact # None
    ELSE IF stage = "near" THEN a.near # None
    ELSE IF stage = "closest" THEN a.closest # None
    ELSE a.fuzzy # None

EnabledStages(a) == SelectSeq(StageNames, LAMBDA st : Enabled(a, st))

Reverse(s) == [i \in 1..Len(s) |-> s[Len(s) + 1 - i]]

\* orders in which the enabled stage flags may have been typed
ArgvOrders(a) == {EnabledStages(a), Reverse(EnabledStages(a))}

-----------------------------------------------------------------------------
(* main: helpers *)

\* ex_keys = lambda res : ... (e[1] for e in res)
ex_keys(r) == [i \in 1..Len(r) |-> r[i].k]

\* a variant of Enumerate: every key numbered 0
MutEnumerate(keys) == [i \in 1..Len(keys) |-> [h |-> 0, k |-> keys[i]]]

\* enumerate(keys)
Enumerate(keys) == [i \in 1..Len(keys) |-> [h |-> i - 1, k |-> keys[i]]]

\* a variant of StageOrder: the stage flags as typed, then the others
MutArgvOrder ==
    argv \o SelectSeq(StageNames, LAMBDA st : st \notin Range(argv))

\* the order in which main reaches its stage blocks
StageOrder == StageNames

AfterStage(st) ==
    LET i == CHOOSE j \in 1..Len(StageOrder) : StageOrder[j] = st
    IN  IF i = Len(StageOrder) THEN "limiter" ELSE StageOrder[i + 1]

NoDisp == [list |-> <<>>, omit |-> {}, show |-> <<>>, important |-> {},
           width |-> 0, lim |-> 0, truncate |-> <<>>, idx |-> 0, cur |-> 0,
           empty |-> FALSE]

NoGeo == [input |-> <<>>, verbose |-> FALSE, result |-> <<>>]

NoIo == [tty |-> TRUE, stdin |-> <<>>, init |-> <<>>, read |-> FALSE]

NoHist == [stream |-> <<>>, kept |-> <<>>, shown |-> <<>>, renderer |-> "none"]

Init ==
    /\ args \in AllArgs
    /\ argv \in ArgvOrders(args)
    /\ pc = "args"
    /\ limit = <<>>
    /\ res = <<>>
    /\ calls = <<>>
    /\ status = <<>>
    /\ err = "none"
    /\ warned = <<>>
    /\ io = NoIo
    /\ hist = NoHist
    /\ out = <<>>
    /\ lookups = {}
    /\ disp = NoDisp
    /\ rows = <<>>
    /\ geo = NoGeo
    /\ cellv = <<>>

\* error(name, ...) and exit(n): the run ends with status n
Exit(n, e) ==
    /\ pc' = "exit"
    /\ status' = <<n>>
    /\ err' = e

-----------------------------------------------------------------------------
(* main: ARGUMENTS, CREATION, FAILING *)

\* main's `limit` after the ARGUMENTS block
EffectiveLimit(a) ==
    IF a.limit = None
    THEN IF a.quiet THEN <<>> ELSE <<DefaultLimit>>
    ELSE <<ParseInt(a.limit)>>

Arguments ==
    /\ pc = "args"
    /\ limit' = EffectiveLimit(args)
    /\ pc' = "creation"
    /\ UNCHANGED <<args, argv, res, calls, status, err, warned, io, hist, out,
                   lookups, disp, rows, geo, cellv>>

Creation ==
    /\ pc = "creation"
    /\ IF args.base \notin BASES THEN Exit(1, "base")
       ELSE IF args.update THEN Exit(0, "none")
       ELSE pc' = "failing" /\ UNCHANGED <<status, err>>
    /\ UNCHANGED <<args, argv, limit, res, calls, warned, io, hist, out,
                   lookups, disp, rows, geo, cellv>>

\* the FAILING block: the first check that fails, or "none"
FailingCheck(a, hasTrepSupport, hasGeoSupport) ==
    LET fs == a.show \o a.omit
    IN  IF a.trep # None /\ ~hasTrepSupport THEN "trep_support"
        ELSE IF (a.near # None \/ a.closest # None) /\ ~hasGeoSupport
        THEN "geocode_support"
        ELSE IF a.exact # None /\ ~IsField(a.exact_property) THEN "property"
        ELSE IF a.fuzzy # None /\ ~IsField(a.fuzzy_property) THEN "property"
        ELSE IF \E i \in 1..Len(fs) : fs[i] # REF /\ ~IsField(fs[i])
        THEN "field"
        ELSE "none"

Failing ==
    /\ pc = "failing"
    /\ \E hasTrepSupport \in BOOLEAN, hasGeoSupport \in BOOLEAN :
          LET e == FailingCheck(args, hasTrepSupport, hasGeoSupport)
          IN  IF e # "none" THEN Exit(1, e)
              ELSE pc' = "source" /\ UNCHANGED <<status, err>>
    /\ UNCHANGED <<args, argv, limit, res, calls, warned, io, hist, out,
                   lookups, disp, rows, geo, cellv>>

-----------------------------------------------------------------------------
(* main: the key source *)

\* tokens of stdin: res.extend(row.strip().split()) for each row
StdinTokens(stdin) ==
    Flatten([i \in 1..Len(stdin) |-> SplitWS(Strip(stdin[i], {" "}))])

\* a variant of ReadsStdin: positional keys win over stdin
MutReadsStdin(tty, keys) == ~tty /\ keys = <<>>

\* the test guarding the stdin branch
ReadsStdin(tty, keys) == ~tty

\* the keys main starts from
InitialKeys(tty, stdin, keys) ==
    IF ReadsStdin(tty, keys) THEN StdinTokens(stdin)
    ELSE IF keys # <<>> THEN keys
    ELSE StoreKeys

KeySource ==
    /\ pc = "source"
    /\ \E tty \in BOOLEAN, stdin \in StdinRows :
          /\ tty => stdin = <<>>
          /\ io' = [tty |-> tty, stdin |-> stdin,
                    init |-> InitialKeys(tty, stdin, args.keys),
                    read |-> ReadsStdin(tty, args.keys)]
          /\ res' = Enumerate(InitialKeys(tty, stdin, args.keys))
    /\ pc' = StageOrder[1]
    /\ UNCHANGED <<args, argv, limit, calls, status, err, warned, hist, out,
                   lookups, disp, rows, geo, cellv>>

-----------------------------------------------------------------------------
(* main: the five stages *)

\* from_keys=ex_keys(res)
Restriction(r) == ex_keys(r)

Called(st, from_keys, r) ==
    /\ calls' = Append(calls, [stage |-> st, from_keys |-> from_keys, res |-> r])
    /\ res' = r

Skipped == UNCHANGED <<res, calls>>

Trep ==
    /\ pc = "trep"
    /\ IF args.trep # None
       THEN Called("trep", Restriction(res), trepGet(args.trep, Restriction(res)))
       ELSE Skipped
    /\ pc' = AfterStage("trep")
    /\ UNCHANGED <<args, argv, limit, status, err, warned, io, hist, out,
                   lookups, disp, rows, geo, cellv>>

Exact ==
    /\ pc = "exact"
    /\ IF args.exact # None
       THEN Called("exact", Restriction(res),
                   Enumerate(getKeysWhere(args.exact_property, args.exact,
                                          Restriction(res))))
       ELSE Skipped
    /\ pc' = AfterStage("exact")
    /\ UNCHANGED <<args, argv, limit, status, err, warned, io, hist, out,
                   lookups, disp, rows, geo, cellv>>

Near ==
    /\ pc = "near"
    /\ IF args.near # None
       THEN LET sc == scan_coords(args.near, ~args.quiet)
            IN  /\ warned' = warned \o sc.warn
                /\ IF sc.exit
                   THEN Exit(1, sc.err) /\ Skipped
                   ELSE /\ Called("near", Restriction(res),
                                  SortBy("tuple",
                                         findNearPoint(sc.coords, NearLimit,
                                                       Restriction(res))))
                        /\ pc' = AfterStage("near")
                        /\ UNCHANGED <<status, err>>
       ELSE Skipped /\ pc' = AfterStage("near")
                    /\ UNCHANGED <<status, err, warned>>
    /\ UNCHANGED <<args, argv, limit, io, hist, out, lookups, disp, rows, geo, cellv>>

Closest ==
    /\ pc = "closest"
    /\ IF args.closest # None
       THEN LET sc == scan_coords(args.closest, ~args.quiet)
            IN  /\ warned' = warned \o sc.warn
                /\ IF sc.exit
                   THEN Exit(1, sc.err) /\ Skipped
                   ELSE /\ Called("closest", Restriction(res),
                                  findClosestFromPoint(sc.coords, ClosestLimit,
                                                       Restriction(res)))
                        /\ pc' = AfterStage("closest")
                        /\ UNCHANGED <<status, err>>
       ELSE Skipped /\ pc' = AfterStage("closest")
                    /\ UNCHANGED <<status, err, warned>>
    /\ UNCHANGED <<args, argv, limit, io, hist, out, lookups, disp, rows, geo, cellv>>

Fuzzy ==
    /\ pc = "fuzzy"
    /\ IF args.fuzzy # None
       THEN Called("fuzzy", Restriction(res),
                   fuzzyGet(args.fuzzy, args.fuzzy_property, FuzzyLimit,
                            Restriction(res)))
       ELSE Skipped
    /\ pc' = AfterStage("fuzzy")
    /\ UNCHANGED <<args, argv, limit, status, err, warned, io, hist, out,
                   lookups, disp, rows, geo, cellv>>

-----------------------------------------------------------------------------
(* main: DISPLAY, the limiter *)

Max(a, b) == IF a > b THEN a ELSE b

Min(a, b) == IF a < b THEN a ELSE b

\* s[:n] of Python, for any int n
SliceTo(s, n) ==
    IF n >= 0 THEN Take(s, n) ELSE Take(s, Max(0, Len(s) + n))

\* if limit is not None: res = res[:limit]
Truncated(r, lim) == IF lim = <<>> THEN r ELSE SliceTo(r, lim[1])

\* a variant of Known: the entries are numbered again
MutKnown(r) == SelectSeq(Enumerate(ex_keys(r)), LAMBDA e : InStore(e.k))

\* res = [(h, k) for h, k in res if k in g]
Known(r) == SelectSeq(r, LAMBDA e : InStore(e.k))

\* a variant of Unknown: no warning at all
MutUnknown(r) == <<>>

\* the keys of r that get a warn('key', ...)
Unknown(r) == ex_keys(SelectSeq(r, LAMBDA e : ~InStore(e.k)))

Limiter ==
    /\ pc = "limiter"
    /\ LET kept == Truncated(res, limit)
       IN  /\ warned' = warned \o Unknown(kept)
           /\ res' = Known(kept)
           /\ hist' = [hist EXCEPT !.stream = res, !.kept = kept]
    /\ pc' = "render"
    /\ UNCHANGED <<args, argv, limit, calls, status, err, io, out, lookups,
                   disp, rows, geo, cellv>>

-----------------------------------------------------------------------------
(* display_quiet *)

\* show, or ['__ref__'] + geob.fields when show is empty
ShowOrDefault(show) == IF show = <<>> THEN <<REF>> \o Fields ELSE show

Displayed(show, omit) ==
    SelectSeq(ShowOrDefault(show), LAMBDA f : f \notin omit)

\* the entries display_quiet writes a line for
QuietEntries(list) == SelectSeq(list, LAMBDA e : InStore(e.k))

QuietLine(e, omit, show) ==
    LET fs == Displayed(show, omit)
    IN  Join(<<"^">>, [i \in 1..Len(fs) |->
                          IF fs[i] = REF THEN Format3(e.h) ELSE Get(e.k, fs[i])])

display_quiet(list, omit, show) ==
    LET es == QuietEntries(list)
    IN  [i \in 1..Len(es) |-> QuietLine(es[i], omit, show)]

\* keys whose fields a renderer reads with geob.get
Looked(list, omit, show) ==
    IF \E f \in Range(Displayed(show, omit)) : f # REF
    THEN Range(ex_keys(list))
    ELSE {}

\* important = set(['__id__']) plus the searched properties
Important(a) ==
    {ID} \cup (IF a.exact # None THEN {a.exact_property} ELSE {})
         \cup (IF a.fuzzy # None THEN {a.fuzzy_property} ELSE {})

Render ==
    /\ pc = "render"
    /\ IF ~args.quiet
       THEN /\ disp' = [NoDisp EXCEPT !.list = res, !.omit = Range(args.omit),
                                      !.show = args.show,
                                      !.important = Important(args)]
            /\ hist' = [hist EXCEPT !.shown = res, !.renderer = "display"]
            /\ pc' = "display"
            /\ UNCHANGED <<out, lookups, status>>
       ELSE /\ out' = display_quiet(res, Range(args.omit), args.show)
            /\ lookups' = Looked(QuietEntries(res), Range(args.omit), args.show)
            /\ hist' = [hist EXCEPT !.shown = res, !.renderer = "display_quiet"]
            /\ pc' = "done"
            /\ status' = <<0>>
            /\ UNCHANGED disp
    /\ UNCHANGED <<args, argv, limit, res, calls, err, warned, io, rows, geo, cellv>>

-----------------------------------------------------------------------------
(* display, RotatingColors, fixed_width *)

\* RotatingColors._availables
Availables == <<"cyan", "white_on_grey">>

getEmph == "white_on_blue"

getHeader == "red"

\* a variant of RotNext: the cycle never advances
MutRotNext(cur) == cur

\* RotatingColors.next
RotNext(cur) == IF cur + 1 = Len(Availables) THEN 0 ELSE cur + 1

\* RotatingColors.get
RotGet(cur) == Availables[cur + 1]

\* the bounds of the column width
MinWidth == 25
MaxWidth == 40
\* the columns getTermSize reports when stty gives nothing
FallbackCols == 160

\* lim = min(40, max(25, int(getTermSize()[1] / float(n+1))))
Lim(W, n) == Min(MaxWidth, Max(MinWidth, W \div (n + 1)))

\* truncate: <<>> is None
TruncateFor(n, lim) == IF n = 1 THEN <<>> ELSE <<lim>>

\* fixed_width(s, col, lim, truncate) without the colour codes
fixed_width(s, lim, truncate) ==
    LET cut == IF truncate = <<>> THEN NoTruncate ELSE truncate[1]
        t == Take(s, cut)
    IN  t \o Blanks(Max(0, lim - Len(t)))

\* terminal widths display() is run with
TermWidths == {0, FallbackCols, MaxTermWidth}

DisplayBegin ==
    /\ pc = "display"
    /\ IF disp.list = <<>>
       THEN /\ disp' = [disp EXCEPT !.empty = TRUE]
            /\ pc' = "done"
            /\ status' = <<0>>
       ELSE \E W \in TermWidths :
              LET n == Len(disp.list)
                  lim == Lim(W, n)
              IN  /\ disp' = [disp EXCEPT !.show = ShowOrDefault(disp.show),
                                          !.width = W, !.lim = lim,
                                          !.truncate = TruncateFor(n, lim),
                                          !.idx = 1, !.cur = 0]
                  /\ pc' = "display_loop"
                  /\ UNCHANGED status
    /\ UNCHANGED <<args, argv, limit, res, calls, err, warned, io, hist, out,
                   lookups, rows, geo, cellv>>

\* the colour of a row
RowStyle(f, important, cur) ==
    IF f = REF THEN getHeader
    ELSE IF f \in important THEN getEmph
    ELSE RotGet(cur)

RowCells(f, list, lim, truncate) ==
    <<fixed_width(f, lim, truncate)>> \o
    [i \in 1..Len(list) |->
        fixed_width(IF f = REF THEN Format3(list[i].h) ELSE Get(list[i].k, f),
                    lim, truncate)]

DisplayField ==
    /\ pc = "display_loop"
    /\ disp.idx <= Len(disp.show)
    /\ LET f == disp.show[disp.idx]
       IN  IF f \notin disp.omit
           THEN /\ rows' = Append(rows,
                       [field |-> f, idx |-> disp.idx, cur |-> disp.cur,
                        style |-> RowStyle(f, disp.important, disp.cur),
                        cells |-> RowCells(f, disp.list, disp.lim,
                                           disp.truncate)])
                /\ lookups' = IF f = REF THEN lookups
                              ELSE lookups \cup Range(ex_keys(disp.list))
                /\ disp' = [disp EXCEPT !.idx = @ + 1, !.cur = RotNext(@)]
           ELSE /\ disp' = [disp EXCEPT !.idx = @ + 1]
                /\ UNCHANGED <<rows, lookups>>
    /\ UNCHANGED <<pc, args, argv, limit, res, calls, status, err, warned, io,
                   hist, out, geo, cellv>>

DisplayEnd ==
    /\ pc = "display_loop"
    /\ disp.idx > Len(disp.show)
    /\ pc' = "done"
    /\ status' = <<0>>
    /\ UNCHANGED <<args, argv, limit, res, calls, err, warned, io, hist, out,
                   lookups, disp, rows, geo, cellv>>

-----------------------------------------------------------------------------
(* The run of main *)

Next ==
    \/ Arguments
    \/ Creation
    \/ Failing
    \/ KeySource
    \/ Trep
    \/ Exact
    \/ Near
    \/ Closest
    \/ Fuzzy
    \/ Limiter
    \/ Render
    \/ DisplayBegin
    \/ DisplayField
    \/ DisplayEnd

Spec == Init /\ [][Next]_vars

-----------------------------------------------------------------------------
(* scan_coords on its own: every short argument over a small alphabet *)

GeoAlphabet == {"(", ")", ",", "1", "2", "A", "D"}

RECURSIVE TextsUpTo(_, _)
TextsUpTo(alphabet, n) ==
    IF n = 0 THEN {<<>>}
    ELSE LET shorter == TextsUpTo(alphabet, n - 1)
         IN  shorter \cup {Append(t, c) : t \in shorter, c \in alphabet}

DefaultArgs ==
    MkArgs("ori_por", FALSE, None, <<None, ID>>, None, None, <<None, NAME>>,
           <<<<>>, <<>>>>, None, FALSE, <<>>)

\* everything main owns, untouched
Idle ==
    /\ args = DefaultArgs
    /\ argv = <<>>
    /\ limit = <<>>
    /\ res = <<>>
    /\ calls = <<>>
    /\ status = <<>>
    /\ err = "none"
    /\ warned = <<>>
    /\ io = NoIo
    /\ hist = NoHist
    /\ out = <<>>
    /\ lookups = {}
    /\ rows = <<>>

InitGeo ==
    /\ Idle
    /\ pc = "scan"
    /\ geo \in {[input |-> t, verbose |-> v, result |-> <<>>] :
                   t \in TextsUpTo(GeoAlphabet, MaxLen), v \in BOOLEAN}
    /\ disp = NoDisp
    /\ cellv = <<>>

\* one call scan_coords(u_input, geob, verbose)
ScanCoords ==
    /\ pc = "scan"
    /\ LET sc == scan_coords(geo.input, geo.verbose)
       IN  /\ geo' = [geo EXCEPT !.result = <<sc>>]
           /\ warned' = warned \o sc.warn
           /\ IF sc.exit THEN Exit(1, sc.err)
              ELSE pc' = "scanned" /\ UNCHANGED <<status, err>>
    /\ UNCHANGED <<args, argv, limit, res, calls, io, hist, out, lookups, disp,
                   rows, cellv>>

NextGeo == ScanCoords

SpecGeo == InitGeo /\ [][NextGeo]_vars

-----------------------------------------------------------------------------
(* display on its own: every short --show list, every omit set *)

ShownFields == {REF, ID, NAME}

\* the first n keys of a fixed list, as enumerate gives them
ResultList(n) == Enumerate(Take(<<KE, KA, KB, KC, KD, KA, KB>>, n))

InitDisplay ==
    /\ Idle
    /\ pc = "display"
    /\ disp \in {[NoDisp EXCEPT !.list = ResultList(n), !.omit = om,
                                !.show = sh, !.important = im] :
                    n \in 0..MaxResults, om \in SUBSET ShownFields,
                    sh \in TextsUpTo(ShownFields, MaxShow),
                    im \in {{ID}, {ID, NAME}}}
    /\ geo = NoGeo
    /\ cellv = <<>>

NextDisplay == DisplayBegin \/ DisplayField \/ DisplayEnd

SpecDisplay == InitDisplay /\ [][NextDisplay]_vars

-----------------------------------------------------------------------------
(* the width computation and fixed_width on their own *)

\* lengths of the cell values tried
CellLengths ==
    {0, 1, MinWidth - 1, MinWidth, MinWidth + 1, MaxWidth - 1, MaxWidth,
     MaxWidth + 1, NoTruncate - 1, NoTruncate, NoTruncate + 1}

InitWidth ==
    /\ Idle
    /\ pc = "cell"
    /\ disp \in {[NoDisp EXCEPT !.list = ResultList(n), !.width = W] :
                    n \in 1..(MaxResults + 1), W \in 0..MaxTermWidth}
    /\ cellv \in {[i \in 1..l |-> "y"] : l \in CellLengths}
    /\ geo = NoGeo

\* the width, the truncation and one cell, as display computes them
FormatCell ==
    /\ pc = "cell"
    /\ LET n == Len(disp.list)
           lim == Lim(disp.width, n)
       IN  /\ disp' = [disp EXCEPT !.lim = lim,
                                   !.truncate = TruncateFor(n, lim)]
           /\ rows' = <<[field |-> <<>>, idx |-> 0, cur |-> 0,
                         style |-> RotGet(0),
                         cells |-> <<fixed_width(cellv, lim,
                                                 TruncateFor(n, lim))>>]>>
    /\ pc' = "formatted"
    /\ UNCHANGED <<args, argv, limit, res, calls, status, err, warned, io,
                   hist, out, lookups, geo, cellv>>

NextWidth == FormatCell

SpecWidth == InitWidth /\ [][NextWidth]_vars

-----------------------------------------------------------------------------
(* Properties of the run of main, checked under Spec *)

\* the order of the stages the documentation promises
FixedPriority == <<"trep", "exact", "near", "closest", "fuzzy">>

Requested == SelectSeq(FixedPriority, LAMBDA st : Enabled(args, st))

StagesCalled == [i \in 1..Len(calls) |-> calls[i].stage]

IsPrefix(s, t) == Len(s) <= Len(t) /\ s = SubSeq(t, 1, Len(s))

KeysOf(r) == [i \in 1..Len(r) |-> r[i].k]

InPipeline == pc \in Range(FixedPriority) \cup {"limiter"}

PastPipeline == pc \in {"render", "display", "display_loop", "done"}

\* C1: the stages that run are the requested ones in the order TextSearch,
\* ExactMatch, RadiusSearch, NearestNSearch, FuzzyMatch, however the flags
\* were typed; every stage call is restricted to the keys, in order, of the
\* stream the previous call left (of the key source for the first call); a
\* stage that is not requested leaves the stream as it was.
C1_StageOrder ==
    /\ IsPrefix(StagesCalled, Requested)
    /\ (pc = "limiter" \/ PastPipeline) => StagesCalled = Requested
    /\ \A i \in 1..Len(calls) :
          calls[i].from_keys =
             IF i = 1 THEN io.init ELSE KeysOf(calls[i - 1].res)
    /\ InPipeline =>
          /\ calls = <<>> => KeysOf(res) = io.init
          /\ calls # <<>> => res = calls[Len(calls)].res

\* C1 witness: three stages ran, typed in another order than they ran, with
\* a stage that was not requested between them
C1_Witness ==
    /\ pc = "done"
    /\ Len(calls) = 3
    /\ argv # StagesCalled
    /\ args.near = None
    /\ args.fuzzy # None
    /\ Len(calls[2].from_keys) >= 2

\* the i-th entry of a stream carries score i - 1
Numbered(r) == \A i \in 1..Len(r) : r[i].h = i - 1

AllZero(r) == \A i \in 1..Len(r) : r[i].h = 0

ExactIsLast == Requested # <<>> /\ Requested[Len(Requested)] = "exact"

RefLine(e) == NatToStr(e.h) \o <<".", "0", "0", "0">>

\* C2 as stated: with no stage requested the final stream is the input keys
\* in input order, each with score 0, and with ExactMatch as the last
\* requested stage every surviving key has score 0.
C2_Original ==
    PastPipeline =>
       /\ Requested = <<>> =>
             KeysOf(hist.stream) = io.init /\ AllZero(hist.stream)
       /\ ExactIsLast => AllZero(hist.stream)

\* C2, amended: with no stage requested the final stream is the input keys
\* in input order, the i-th key (counting from 0) with score i, and quiet
\* mode prints that score with three decimals; with ExactMatch as the last
\* requested stage the i-th surviving key has score i.
C2_Positions ==
    PastPipeline =>
       /\ Requested = <<>> =>
             KeysOf(hist.stream) = io.init /\ Numbered(hist.stream)
       /\ ExactIsLast => Numbered(hist.stream)
       /\ (pc = "done" /\ args.quiet /\ args.show = <<REF, ID>>
           /\ args.omit = <<>>) =>
             /\ Len(out) = Len(hist.shown)
             /\ \A i \in 1..Len(out) :
                   out[i] = RefLine(hist.shown[i]) \o <<"^">> \o hist.shown[i].k

\* C2 witness: no stage, two or more keys, quiet output with the score shown
C2_Witness ==
    /\ pc = "done"
    /\ Requested = <<>>
    /\ args.quiet
    /\ args.show = <<REF, ID>>
    /\ Len(out) >= 2
    /\ out[2] = <<"2", ".", "0", "0", "0", "^", "A">>

ValidationErrors ==
    {"base", "trep_support", "geocode_support", "property", "field",
     "geocode_format", "geocode_unknown"}

\* C3 as stated: a run that ends on an invalid argument has called no stage.
C3_FailFast ==
    (pc = "exit" /\ status = <<1>> /\ err \in ValidationErrors) => calls = <<>>

\* the tokens of the two non-empty inputs of StdinRows, read by eye
ExpectedTokens(stdin) ==
    IF stdin = <<>> THEN <<>>
    ELSE IF stdin[1] = <<"B">> THEN <<KB, KA>>
    ELSE <<KE, KZ, KC>>

PastSource == pc \notin {"args", "creation", "failing", "source", "exit"}

\* C4 as stated: stdin is the key source only without a terminal and without
\* positional keys; positional keys, when given, are the key source; with a
\* terminal and no positional keys it is the whole store.
C4_Original ==
    PastSource =>
       /\ io.read <=> (~io.tty /\ args.keys = <<>>)
       /\ io.init = IF ~io.tty /\ args.keys = <<>> THEN ExpectedTokens(io.stdin)
                    ELSE IF args.keys # <<>> THEN args.keys
                    ELSE StoreKeys

\* C4, amended: stdin is the key source whenever no terminal is attached,
\* whether or not positional keys were given (they are then ignored); with a
\* terminal the positional keys are the key source when given, and the whole
\* store otherwise.
C4_KeySource ==
    PastSource =>
       /\ io.read <=> ~io.tty
       /\ io.init = IF ~io.tty THEN ExpectedTokens(io.stdin)
                    ELSE IF args.keys # <<>> THEN args.keys
                    ELSE StoreKeys

\* C4 witness: no terminal, positional keys given, three tokens on stdin
C4_Witness ==
    /\ PastSource
    /\ ~io.tty
    /\ args.keys # <<>>
    /\ io.init = <<KE, KZ, KC>>
    /\ KeysOf(res) = <<KE, KZ, KC>>

\* C5 as stated: a key that is not in the store never ends the run.
C5_Original == ~(pc = "exit" /\ err = "key")

Absent(ks) == SelectSeq(ks, LAMBDA k : ~InStore(k))

\* C5, amended: a positional or piped key that is not in the store is only
\* warned about and skipped, and the run goes on to the renderer and ends
\* with status 0; a key given to --near or --closest that is not in the store
\* is warned about and the run then ends with status 1, that stage not called.
C5_AbsentKeys ==
    /\ PastPipeline =>
          /\ warned = Absent(KeysOf(hist.kept))
          /\ status \in {<<>>, <<0>>}
    /\ (PastPipeline /\ pc # "render") => Absent(KeysOf(hist.shown)) = <<>>
    /\ pc = "done" => status = <<0>>
    /\ (pc = "exit" /\ err = "key") =>
          /\ status = <<1>>
          /\ \/ /\ args.near # None /\ ~InStore(args.near)
                /\ warned = <<args.near>>
                /\ "near" \notin Range(StagesCalled)
             \/ /\ args.closest # None /\ ~InStore(args.closest)
                /\ warned = <<args.closest>>
                /\ "closest" \notin Range(StagesCalled)

\* C5 witness: a run given an absent positional key ended normally, having
\* warned about it and shown the keys after it
C5_Witness ==
    /\ pc = "done"
    /\ status = <<0>>
    /\ io.init = <<KB, KZ, KA>>
    /\ warned = <<KZ>>
    /\ KeysOf(hist.shown) = <<KB, KA>>

\* C6 as stated: the limit is N when --limit N is given, else 4 in
\* interactive mode and none in quiet mode; the limiter keeps the first N
\* entries of the final stream (all of it when it has at most N entries or
\* there is no limit), so never more than N entries.
C6_Limit ==
    /\ pc # "args" =>
          limit = IF args.limit # None THEN <<ParseInt(args.limit)>>
                  ELSE IF args.quiet THEN <<>> ELSE <<4>>
    /\ PastPipeline =>
          IF limit = <<>> \/ Len(hist.stream) <= limit[1]
          THEN hist.kept = hist.stream
          ELSE /\ Len(hist.kept) <= limit[1]
               /\ IsPrefix(hist.kept, hist.stream)
               /\ Len(hist.kept) = limit[1]

\* the entries of r whose key is in the store, one by one
RECURSIVE InStoreOnly(_)
InStoreOnly(r) ==
    IF r = <<>> THEN <<>>
    ELSE IF InStore(Head(r).k) THEN <<Head(r)>> \o InStoreOnly(Tail(r))
    ELSE InStoreOnly(Tail(r))

\* C7: what a renderer is given is the truncated list without the entries
\* whose key is not in the store, order and scores kept; each such entry of
\* the truncated list got one warning; no renderer looks up a field of a key
\* that is not in the store.
C7_Membership ==
    /\ (PastPipeline /\ pc # "render") =>
          /\ hist.shown = InStoreOnly(hist.kept)
          /\ Len(warned) = Len(hist.kept) - Len(hist.shown)
          /\ \A i \in 1..Len(hist.kept) :
                ~InStore(hist.kept[i].k) => hist.kept[i].k \in Range(warned)
          /\ Range(warned) \subseteq Range(KeysOf(hist.kept))
          /\ pc \in {"display", "display_loop"} => disp.list = hist.shown
    /\ \A k \in lookups : InStore(k)

\* C7 witness: the stream was cut, an absent key was inside the kept part,
\* and the key after it kept its score 2 and was looked up
C7_Witness ==
    /\ pc = "done"
    /\ Len(hist.stream) > Len(hist.kept)
    /\ Len(hist.kept) = 4
    /\ Len(hist.shown) = 3
    /\ hist.shown[2].h = 2
    /\ hist.shown[2].k \in lookups
    /\ warned = <<KZ>>

-----------------------------------------------------------------------------
(* Properties of scan_coords, checked under SpecGeo *)

\* the argument without its surrounding parentheses, cut at the commas
Tokens(t) == Split(Strip(t, {"(", ")"}), ",")

Numeric(t) == t # <<>> /\ \A i \in 1..Len(t) : t[i] \in {"1", "2"}

AllNumeric(t) == \A i \in 1..Len(Tokens(t)) : Numeric(Tokens(t)[i])

\* the value of a numeral of ones and twos
RECURSIVE Value(_)
Value(t) ==
    IF t = <<>> THEN 0
    ELSE 10 * Value(SubSeq(t, 1, Len(t) - 1)) + (IF t[Len(t)] = "1" THEN 1 ELSE 2)

Scanned == pc \in {"scanned", "exit"} /\ geo.result # <<>>

\* C8: when every token is a number the call gives the pair of numbers if
\* there are exactly two tokens and ends the run with geocode_format for any
\* other count; when some token is not a number the whole argument is a key:
\* the run ends with the unknown-key report when the store lacks it, with
\* geocode_unknown when the store has no coordinate for it, and the call
\* gives the store's coordinate otherwise. One outcome per call.
C8_Resolver ==
    Scanned =>
       LET r == geo.result[1]
           t == geo.input
       IN  /\ Len(geo.result) = 1
           /\ r.exit <=> (pc = "exit" /\ status = <<1>>)
           /\ ~r.exit <=> (pc = "scanned" /\ status = <<>> /\ r.err = "none")
           /\ IF AllNumeric(t)
              THEN IF Len(Tokens(t)) = 2
                   THEN /\ ~r.exit
                        /\ r.coords = <<Value(Tokens(t)[1]), Value(Tokens(t)[2])>>
                   ELSE r.exit /\ err = "geocode_format" /\ r.coords = <<>>
              ELSE IF t \notin {KA, KB, KC, KD, KE}
                   THEN r.exit /\ err = "key" /\ warned = <<t>>
                   ELSE IF t = KD
                   THEN r.exit /\ err = "geocode_unknown" /\ warned = <<>>
                   ELSE ~r.exit /\ r.coords = getLocation(t) /\ Len(r.coords) = 2

\* C8 witness: three numbers between parentheses end the run with
\* geocode_format
C8_Witness ==
    /\ Scanned
    /\ Len(Tokens(geo.input)) = 3
    /\ AllNumeric(geo.input)
    /\ pc = "exit"
    /\ err = "geocode_format"

-----------------------------------------------------------------------------
(* Properties of display, checked under SpecDisplay *)

\* how many of the first n fields of show are displayed
RECURSIVE DisplayedBefore(_, _, _)
DisplayedBefore(show, omit, n) ==
    IF n = 0 THEN 0
    ELSE DisplayedBefore(show, omit, n - 1) + (IF show[n] \in omit THEN 0 ELSE 1)

Palette(i) == IF i % 2 = 0 THEN "cyan" ELSE "white_on_grey"

RowFields == [i \in 1..Len(rows) |-> rows[i].field]

\* C9: while display walks the shown fields in order the cycle index is 0 at
\* the start, is always 0 or 1, and has advanced once for each displayed
\* field passed and not for an omitted one; the __ref__ row is drawn in the
\* header style, a row of an important field in the emphasis style, and any
\* other row in the palette entry given by the number of displayed fields
\* before it, modulo 2.
C9_Rotation ==
    /\ disp.cur \in {0, 1}
    /\ pc = "display" => disp.cur = 0 /\ rows = <<>>
    /\ pc = "display_loop" =>
          /\ disp.cur = DisplayedBefore(disp.show, disp.omit, disp.idx - 1) % 2
          /\ Len(rows) = DisplayedBefore(disp.show, disp.omit, disp.idx - 1)
          /\ RowFields = SelectSeq(SubSeq(disp.show, 1, disp.idx - 1),
                                   LAMBDA f : f \notin disp.omit)
    /\ \A i \in 1..Len(rows) :
          LET f == rows[i].field
          IN  rows[i].style =
                 IF f = REF THEN "red"
                 ELSE IF f \in disp.important THEN "white_on_blue"
                 ELSE Palette(DisplayedBefore(disp.show, disp.omit,
                                              rows[i].idx - 1))

\* C9 witness: an omitted field was passed between two displayed ones, and
\* an ordinary field after one displayed field was drawn in the second
\* palette entry
C9_Witness ==
    /\ pc = "done"
    /\ disp.show = <<ID, REF, NAME>>
    /\ disp.omit = {REF}
    /\ disp.important = {ID}
    /\ Len(rows) = 2
    /\ rows[1].style = "white_on_blue"
    /\ rows[2].style = "white_on_grey"

-----------------------------------------------------------------------------
(* Properties of the width and of fixed_width, checked under SpecWidth *)

Clamp(x, lo, hi) == IF x < lo THEN lo ELSE IF x > hi THEN hi ELSE x

\* C10 as stated: the width is clamp(floor(W / (N + 1)), 25, 40); with one
\* result a value of any length is written in full; with more results a
\* value is cut to min(length, width) characters and padded with blanks to
\* width characters.
C10_Width ==
    pc = "formatted" =>
       LET n == Len(disp.list)
           cell == rows[1].cells[1]
           l == Len(cellv)
       IN  /\ disp.lim = Clamp(disp.width \div (n + 1), 25, 40)
           /\ disp.lim >= 25 /\ disp.lim <= 40
           /\ n = 1 => Len(cell) >= l /\ SubSeq(cell, 1, l) = cellv
           /\ n > 1 =>
                 /\ Len(cell) = disp.lim
                 /\ \A i \in 1..disp.lim :
                       cell[i] = IF i <= l THEN cellv[i] ELSE " "

=============================================================================
